---- MODULE Spec2Model ----
(***************************************************************************)
(* Model of colossalai/logging/logger.py: the DistributedLogger registry   *)
(* (get_instance / __init__), the level and file-sink configuration        *)
(* (set_level / log_to_file), and the rank-gated log calls (_log / flush). *)
(* The standard logging module is modelled by what it does: a leveled      *)
(* logger with an ordered handler list, per-handler thresholds and         *)
(* propagation to the root logger configured by logging.basicConfig.       *)
(***************************************************************************)
EXTENDS Integers, Sequences, FiniteSets, TLC

\* ------------------------------------------------------------------ bounds
MaxRank == 1        \* ranks of a group are 0..MaxRank
MaxMsgs == 2        \* log calls per run
MaxAttach == 2      \* successful log_to_file calls per logger
NumThreads == 2     \* threads racing on get_instance (SpecConc)
MaxCalls == 2       \* get_instance calls per thread (SpecConc)

\* --------------------------------------------------------------- constants
NOTSET == 0         \* level of a logger fresh from logging.getLogger
RootLevel == 20     \* logging.basicConfig(level=logging.INFO)
StreamLevel == 20   \* stream_handler.setLevel(logging.INFO)

Names == {"a", "b", "c"}     \* logger names the registry is tried with
ConcNames == {"a", "b"}      \* logger names the threads race on
LogNames == {"a"}            \* the logger the level, sink and log calls are made on
Groups == {"GLOBAL"}         \* ParallelMode members the log calls are tried with
Ranks == 0..MaxRank
Paths == {"logs/x.txt", "x.txt"}
ValidLevels == {"INFO", "DEBUG", "WARNING", "ERROR"}
LevelArgs == {"DEBUG", "WARNING", "TRACE"}    \* level strings the calls are tried with
Methods == {"debug", "info", "warning", "error"}
Threads == 1..NumThreads

NoInst == 0                  \* "name not in __instances"
NoRanks == [given |-> FALSE, set |-> {}]     \* ranks=None
RankList(S) == [given |-> TRUE, set |-> S]   \* ranks=[...]
Raised == [raise |-> TRUE, rank |-> 0]       \* a lookup that ends in an exception
Rank(r) == [raise |-> FALSE, rank |-> r]     \* a lookup that returns r

\* getattr(logging, level) for a valid level string, and the severity that
\* Logger.debug/info/warning/error give their record.
LevelNo(s) ==
  CASE s = "DEBUG" -> 10
    [] s = "INFO" -> 20
    [] s = "WARNING" -> 30
    [] s = "ERROR" -> 40

SevNo(m) ==
  CASE m = "debug" -> 10
    [] m = "info" -> 20
    [] m = "warning" -> 30
    [] m = "error" -> 40

\* osp.dirname(path)
Dirname(p) ==
  CASE p = "logs/x.txt" -> "logs"
    [] p = "x.txt" -> ""

VARIABLES
  instances,   \* DistributedLogger.__instances: name -> instance id, NoInst if absent
  handed,      \* the instances get_instance has returned for each name
  created,     \* every DistributedLogger object whose __init__ went past its check: {[id, name]}
  loggers,     \* logging.getLogger(name): [level, handlers, propagate]
  root,        \* the root logger set up by logging.basicConfig
  fs,          \* directories and files created by log_to_file
  gpcInit,     \* groups for which global_context.is_initialized holds
  gpcRank,     \* this process's rank in each initialized group
  msgs,        \* number of log calls made so far; the next message's id is msgs + 1
  levelSet,    \* last level string a successful set_level gave each logger
  attached,    \* successful log_to_file calls per logger
  last,        \* the call just made and what it did
  pc,          \* SpecConc: where each thread is inside get_instance
  race         \* SpecConc: names on which two calls overlapped before registration

vars == <<instances, handed, created, loggers, root, fs, gpcInit, gpcRank, msgs,
          levelSet, attached, last, pc, race>>

\* -------------------------------------------------------------- handlers
Handler(kind, level, path) ==
  [kind |-> kind, level |-> level, path |-> path, buf |-> <<>>, out |-> <<>>]

\* Handler.flush: what the stream buffers reaches the sink.
HandlerFlush(h) == [h EXCEPT !.out = @ \o h.buf, !.buf = <<>>]

\* StreamHandler.emit (FileHandler and RichHandler alike): write, then flush.
HandlerEmit(h, id) == HandlerFlush([h EXCEPT !.buf = Append(@, id)])

\* Logger.callHandlers for one logger's handler list: every handler whose
\* own threshold the record's severity reaches handles it.
CallHandlers(hs, id, sev) ==
  [i \in 1..Len(hs) |-> IF sev >= hs[i].level THEN HandlerEmit(hs[i], id) ELSE hs[i]]

\* Logger.getEffectiveLevel: the logger's own level, or the root's when unset.
EffectiveLevel(lg) == IF lg.level # NOTSET THEN lg.level ELSE root.level

FreshLogger == [level |-> NOTSET, handlers |-> <<>>, propagate |-> TRUE]

NoCall ==
  [op |-> "none", name |-> "", raised |-> FALSE, ret |-> NoInst, again |-> FALSE,
   sev |-> 0, passed |-> FALSE, id |-> 0, flushed |-> {}]

\* A thread outside get_instance that has made c calls.
Idle(c) == [at |-> "idle", name |-> "", self |-> NoInst, ret |-> NoInst, calls |-> c]

Init ==
  /\ instances = [n \in Names |-> NoInst]
  /\ handed = [n \in Names |-> {}]
  /\ created = {}
  /\ loggers = [n \in Names |-> FreshLogger]
  /\ root = [level |-> RootLevel, handlers |-> <<Handler("rich", NOTSET, "")>>]
  /\ fs = {}
  /\ gpcInit \in SUBSET Groups
  /\ gpcRank \in [Groups -> Ranks]
  /\ \A g \in Groups \ gpcInit : gpcRank[g] = 0
  /\ msgs = 0
  /\ levelSet = [n \in Names |-> "NONE"]
  /\ attached = [n \in Names |-> 0]
  /\ last = NoCall
  /\ pc = [t \in Threads |-> Idle(0)]
  /\ race = {}

\* ------------------------------------------------------------- registry
\* id of the next DistributedLogger object
NewId == Cardinality(created) + 1

\* Faulty variant of GetInstanceHit: the membership check never finds the name.
GetInstanceHitNever(n) == FALSE

\* get_instance: "if name in DistributedLogger.__instances"
GetInstanceHit(n) == instances[n] # NoInst

\* Faulty variant of InitDuplicate: the constructor does not look at the registry.
InitDuplicateUnchecked(n) == FALSE

\* __init__: "if name in DistributedLogger.__instances" -> raise Exception
InitDuplicate(n) == instances[n] # NoInst

\* __init__: "DistributedLogger.__instances[name] = self"
Register(reg, n, id) == [reg EXCEPT ![n] = id]

\* DistributedLogger.__init__(name), run to completion, inside the call op.
\* (The formatter it sets on the handlers logging.getLogger(name) already has
\* only changes how a line is rendered and is not part of the state.)
Construct(n, op) ==
  IF InitDuplicate(n)
    THEN /\ last' = [NoCall EXCEPT !.op = op, !.name = n, !.raised = TRUE]
         /\ UNCHANGED <<instances, created>>
    ELSE /\ instances' = Register(instances, n, NewId)
         /\ created' = created \cup {[id |-> NewId, name |-> n]}
         /\ last' = [NoCall EXCEPT !.op = op, !.name = n, !.ret = NewId]

\* DistributedLogger.get_instance(name), run to completion. last.again tells
\* that get_instance had returned an instance for this name before.
GetInstance(n) ==
  /\ IF GetInstanceHit(n)
       THEN /\ last' = [NoCall EXCEPT !.op = "get_instance", !.name = n,
                                      !.ret = instances[n], !.again = handed[n] # {}]
            /\ UNCHANGED <<instances, created>>
       ELSE Construct(n, "get_instance")
  /\ handed' = IF last'.raised THEN handed ELSE [handed EXCEPT ![n] = @ \cup {last'.ret}]
  /\ UNCHANGED <<loggers, root, fs, gpcInit, gpcRank, msgs, levelSet, attached, pc, race>>

\* DistributedLogger(name) called directly.
DirectConstruct(n) ==
  /\ Construct(n, "construct")
  /\ UNCHANGED <<handed, loggers, root, fs, gpcInit, gpcRank, msgs, levelSet, attached, pc, race>>

\* ------------------------------------------------- level and file sinks
\* _check_valid_logging_level: the assert holds
CheckValidLoggingLevel(level) == level \in ValidLevels

\* Faulty variant of NewLevel: the level is validated but not applied.
NewLevelKept(old, level) == old

\* "self._logger.setLevel(getattr(logging, level))": the logger's level after it.
NewLevel(old, level) == LevelNo(level)

\* set_level(level) on the logger registered under n.
SetLevel(n, level) ==
  /\ instances[n] # NoInst
  /\ IF ~CheckValidLoggingLevel(level)
       THEN /\ last' = [NoCall EXCEPT !.op = "set_level", !.name = n, !.raised = TRUE]
            /\ UNCHANGED <<loggers, levelSet>>
       ELSE /\ loggers' = [loggers EXCEPT ![n].level = NewLevel(@, level)]
            /\ levelSet' = [levelSet EXCEPT ![n] = level]
            /\ last' = [NoCall EXCEPT !.op = "set_level", !.name = n]
  /\ UNCHANGED <<instances, handed, created, root, fs, gpcInit, gpcRank, msgs, attached, pc, race>>

\* global_context.get_global_rank()
GetGlobalRank == gpcRank["GLOBAL"]

\* The rank log_to_file decides on: 0 when the GLOBAL group is not initialized.
FileSinkRank == IF "GLOBAL" \notin gpcInit THEN 0 ELSE GetGlobalRank

\* os.makedirs(osp.dirname(path), exist_ok=True) raises FileNotFoundError on
\* the empty directory name a bare file name has.
MakedirsRaises(path) == Dirname(path) = ""

\* Faulty variant of AttachSinks: the stream handler is added only if there is none yet.
AttachSinksOnce(hs, path, level) ==
  hs \o <<Handler("file", LevelNo(level), path)>>
     \o (IF \E i \in 1..Len(hs) : hs[i].kind = "stream"
          THEN <<>> ELSE <<Handler("stream", StreamLevel, "")>>)

\* The handler list after log_to_file attached its file and stream handlers.
AttachSinks(hs, path, level) ==
  hs \o <<Handler("file", LevelNo(level), path), Handler("stream", StreamLevel, "")>>

\* Faulty variant of LogToFileOutcome: the rank-0 return comes before the level assert.
LogToFileOutcomeRankFirst(path, level) ==
  IF FileSinkRank # 0 THEN "skip"
  ELSE IF ~CheckValidLoggingLevel(level) THEN "invalid"
  ELSE IF MakedirsRaises(path) THEN "nodir"
  ELSE "attach"

\* How far log_to_file gets, its checks taken in the order of the code: the
\* level assert, the rank-0 return, os.makedirs, then the handlers.
LogToFileOutcome(path, level) ==
  IF ~CheckValidLoggingLevel(level) THEN "invalid"
  ELSE IF FileSinkRank # 0 THEN "skip"
  ELSE IF MakedirsRaises(path) THEN "nodir"
  ELSE "attach"

\* log_to_file(path, mode, level) on the logger registered under n. (mode only
\* decides whether the file is truncated when opened; the sinks hold what
\* this process wrote.)
LogToFile(n, path, level) ==
  /\ instances[n] # NoInst
  /\ attached[n] < MaxAttach
  /\ LET call == [NoCall EXCEPT !.op = "log_to_file", !.name = n]
         outcome == LogToFileOutcome(path, level)
     IN
     IF outcome \in {"invalid", "nodir"}
       THEN /\ last' = [call EXCEPT !.raised = TRUE]
            /\ UNCHANGED <<loggers, fs, attached>>
     ELSE IF outcome = "skip"
       THEN /\ last' = call
            /\ UNCHANGED <<loggers, fs, attached>>
     ELSE /\ fs' = fs \cup {Dirname(path), path}
          /\ loggers' = [loggers EXCEPT
                           ![n].propagate = FALSE,
                           ![n].handlers = AttachSinks(@, path, level)]
          /\ attached' = [attached EXCEPT ![n] = @ + 1]
          /\ last' = [call EXCEPT !.passed = TRUE]
  /\ UNCHANGED <<instances, handed, created, root, gpcInit, gpcRank, msgs, levelSet, pc, race>>

\* ------------------------------------------------------------ log calls
\* global_context.get_local_rank(parallel_mode): the rank in an initialized
\* group; for a group that is not initialized the collaborator has no rank
\* to give and signals it, which ends the lookup with an exception.
GetLocalRank(g) == IF g \in gpcInit THEN Rank(gpcRank[g]) ELSE Raised

\* "local_rank in ranks"
InRanks(r, ranks) == r \in ranks.set

\* Faulty variant of FlushSet: the loop stops one handler short.
FlushSetShort(hs) == 1..(Len(hs) - 1)

\* DistributedLogger.flush: the handlers of self._logger that get flushed.
FlushSet(hs) == 1..Len(hs)

Flush(hs) == [i \in 1..Len(hs) |-> IF i \in FlushSet(hs) THEN HandlerFlush(hs[i]) ELSE hs[i]]

\* Faulty variant of IsEnabledFor: the logger's level is not consulted.
IsEnabledForAny(lg, sev) == TRUE

\* Logger.isEnabledFor(sev)
IsEnabledFor(lg, sev) == sev >= EffectiveLevel(lg)

\* getattr(self._logger, level)(message); self.flush()
Emit(n, sev, id) ==
  LET lg == loggers[n]
      on == IsEnabledFor(lg, sev)
      own == IF on THEN CallHandlers(lg.handlers, id, sev) ELSE lg.handlers
  IN
  /\ loggers' = [loggers EXCEPT ![n].handlers = Flush(own)]
  /\ root' = IF on /\ lg.propagate
               THEN [root EXCEPT !.handlers = CallHandlers(@, id, sev)]
               ELSE root

RankArgs == {NoRanks} \cup {RankList(S) : S \in SUBSET Ranks}

\* debug / info / warning / error -> _log(level, message, parallel_mode, ranks)
Log(n, m, g, ranks) ==
  /\ instances[n] # NoInst
  /\ msgs < MaxMsgs
  /\ LET sev == SevNo(m)
         id == msgs + 1
         call == [NoCall EXCEPT !.op = "log", !.name = n, !.sev = sev, !.id = id]
         emitted == [call EXCEPT !.passed = TRUE, !.flushed = FlushSet(loggers[n].handlers)]
     IN
     /\ msgs' = id
     /\ IF ~ranks.given
          THEN /\ Emit(n, sev, id)
               /\ last' = emitted
          ELSE LET r == GetLocalRank(g) IN
                 IF r.raise
                   THEN /\ last' = [call EXCEPT !.raised = TRUE]
                        /\ UNCHANGED <<loggers, root>>
                 ELSE IF InRanks(r.rank, ranks)
                   THEN /\ Emit(n, sev, id)
                        /\ last' = emitted
                 ELSE /\ last' = call
                      /\ UNCHANGED <<loggers, root>>
  /\ UNCHANGED <<instances, handed, created, fs, gpcInit, gpcRank, levelSet, attached, pc, race>>


\* ------------------------------------------- get_instance, thread by thread
\* The calls of other threads that are between the check of get_instance and
\* the insertion of __init__ for the name n.
Constructing(t, n) ==
  {u \in Threads \ {t} : pc[u].name = n /\ pc[u].at \in {"init", "insert"}}

\* Thread t enters get_instance(n) and evaluates its membership check.
GetInstanceCheck(t, n) ==
  /\ pc[t].at = "idle"
  /\ pc[t].calls < MaxCalls
  /\ IF GetInstanceHit(n)
       THEN /\ pc' = [pc EXCEPT ![t] = [at |-> "returned", name |-> n, self |-> NoInst,
                                        ret |-> instances[n], calls |-> @.calls + 1]]
            /\ race' = race
       ELSE /\ pc' = [pc EXCEPT ![t] = [at |-> "init", name |-> n, self |-> NoInst,
                                        ret |-> NoInst, calls |-> @.calls + 1]]
            /\ race' = IF Constructing(t, n) # {} THEN race \cup {n} ELSE race
  /\ UNCHANGED <<instances, handed, created, loggers, root, fs, gpcInit, gpcRank, msgs,
                 levelSet, attached, last>>

\* Thread t, inside DistributedLogger(name=name), evaluates the check of __init__.
InitCheck(t) ==
  /\ pc[t].at = "init"
  /\ IF InitDuplicate(pc[t].name)
       THEN /\ pc' = [pc EXCEPT ![t].at = "raised"]
            /\ created' = created
       ELSE /\ pc' = [pc EXCEPT ![t].at = "insert", ![t].self = NewId]
            /\ created' = created \cup {[id |-> NewId, name |-> pc[t].name]}
  /\ UNCHANGED <<instances, handed, loggers, root, fs, gpcInit, gpcRank, msgs,
                 levelSet, attached, last, race>>

\* Thread t registers its object and get_instance returns it.
InitInsert(t) ==
  /\ pc[t].at = "insert"
  /\ instances' = Register(instances, pc[t].name, pc[t].self)
  /\ pc' = [pc EXCEPT ![t].at = "returned", ![t].ret = pc[t].self]
  /\ UNCHANGED <<handed, created, loggers, root, fs, gpcInit, gpcRank, msgs,
                 levelSet, attached, last, race>>

\* Thread t goes on after its call returned or raised.
CallDone(t) ==
  /\ pc[t].at \in {"returned", "raised"}
  /\ pc' = [pc EXCEPT ![t] = Idle(@.calls)]
  /\ UNCHANGED <<instances, handed, created, loggers, root, fs, gpcInit, gpcRank, msgs,
                 levelSet, attached, last, race>>

\* One logger's life, call after call.
Next ==
  \/ \E n \in LogNames : GetInstance(n)
  \/ \E n \in LogNames : DirectConstruct(n)
  \/ \E n \in LogNames, level \in LevelArgs : SetLevel(n, level)
  \/ \E n \in LogNames, path \in Paths, level \in LevelArgs : LogToFile(n, path, level)
  \/ \E n \in LogNames, m \in Methods, g \in Groups, ranks \in RankArgs : Log(n, m, g, ranks)

Spec == Init /\ [][Next]_vars

\* The registry under several names, call after call.
NextRegistry ==
  \/ \E n \in Names : GetInstance(n)
  \/ \E n \in Names : DirectConstruct(n)

SpecRegistry == Init /\ [][NextRegistry]_vars

\* get_instance called from several threads with no lock, before the
\* parallel context is initialized.
InitConc ==
  /\ Init
  /\ gpcInit = {}

NextConc ==
  \/ \E t \in Threads, n \in ConcNames : GetInstanceCheck(t, n)
  \/ \E t \in Threads : InitCheck(t)
  \/ \E t \in Threads : InitInsert(t)
  \/ \E t \in Threads : CallDone(t)

SpecConc == InitConc /\ [][NextConc]_vars

\* ------------------------------------------------------------ properties
Range(q) == {q[i] : i \in 1..Len(q)}

Increasing(q) == \A i, j \in 1..Len(q) : i < j => q[i] < q[j]

CreatedFor(n) == {c \in created : c.name = n}

\* The handlers of logger n that hold message id, by kind.
Wrote(n, kind, id) ==
  {i \in 1..Len(loggers[n].handlers) :
     loggers[n].handlers[i].kind = kind /\ id \in Range(loggers[n].handlers[i].out)}

RootWrote(id) ==
  {i \in 1..Len(root.handlers) : id \in Range(root.handlers[i].out)}

OfKind(n, kind) ==
  {i \in 1..Len(loggers[n].handlers) : loggers[n].handlers[i].kind = kind}

\* C1: get_instance(n) never raises and returns the instance the registry
\* holds for n, registering one if n was absent; every call with the same n
\* has returned the same instance; and a registry entry, once made, is the
\* only object ever registered for its name and is still there.
GetInstanceUnique ==
  /\ last.op = "get_instance" =>
       /\ ~last.raised
       /\ last.ret # NoInst
       /\ instances[last.name] = last.ret
  /\ \A n \in Names :
       /\ Cardinality(handed[n]) <= 1
       /\ handed[n] # {} => handed[n] = {instances[n]}
       /\ Cardinality(CreatedFor(n)) <= 1
       /\ CreatedFor(n) # {} => CreatedFor(n) = {[id |-> instances[n], name |-> n]}
       /\ instances[n] # NoInst => CreatedFor(n) # {}

\* C1 witness: get_instance returned, for a name it had returned an instance
\* for before, the same instance again, other names having been registered
\* in between.
GetInstanceTwice ==
  /\ last.op = "get_instance"
  /\ last.again
  /\ handed[last.name] = {last.ret}
  /\ last.ret < Cardinality(created)

\* C2: directly constructing DistributedLogger(name) for a name the registry
\* holds raises, and leaves the registry mapping every name to the instance
\* it had.
DuplicateConstructFails ==
  [][(last'.op = "construct" /\ instances[last'.name] # NoInst)
       => (last'.raised /\ instances' = instances /\ created' = created)]_vars

\* C2 witness: a direct construction has failed on a name that get_instance
\* registered, and the registry still holds the instance it handed out.
DuplicateConstructRejected ==
  /\ last.op = "construct"
  /\ last.raised
  /\ handed[last.name] = {instances[last.name]}

\* The rank the rank gate is to decide on: the rank in the group, rank 0 when
\* the group is not initialized.
ResolvedRank(g) == IF g \in gpcInit THEN gpcRank[g] ELSE 0

\* A log call that went no further than the rank gate: nothing written,
\* nothing flushed, nothing raised, the logger as it was.
Suppressed ==
  /\ ~last'.raised
  /\ last'.flushed = {}
  /\ UNCHANGED <<loggers, root, fs, levelSet, attached>>

\* C3: a log call with no allowed-rank set always reaches the underlying
\* logger; with an allowed-rank set it reaches it exactly when the resolved
\* rank of this process in the given group is in the set, and otherwise it
\* is suppressed: no output, no error, no flush, the logger unchanged.
RankGate ==
  [][\A n \in LogNames, m \in Methods, g \in Groups, ranks \in RankArgs :
       Log(n, m, g, ranks) =>
         /\ ~ranks.given => last'.passed
         /\ ranks.given =>
              /\ ~last'.raised
              /\ last'.passed <=> ResolvedRank(g) \in ranks.set
         /\ ~last'.passed => Suppressed]_vars

\* The rank gate on the groups that are initialized, and with no rank set.
RankGateInitialized ==
  [][\A n \in LogNames, m \in Methods, g \in Groups, ranks \in RankArgs :
       (Log(n, m, g, ranks) /\ (g \in gpcInit \/ ~ranks.given)) =>
         /\ ~ranks.given => last'.passed
         /\ ranks.given =>
              /\ ~last'.raised
              /\ last'.passed <=> gpcRank[g] \in ranks.set
         /\ ~last'.passed => Suppressed]_vars

\* C4: on a group that is not initialized a rank-filtered log call takes the
\* rank to be 0: it does not fail, and it emits exactly when 0 is in the
\* allowed-rank set.
UninitializedGroupIsRankZero ==
  [][\A n \in LogNames, m \in Methods, g \in Groups, S \in SUBSET Ranks :
       (Log(n, m, g, RankList(S)) /\ g \notin gpcInit) =>
         /\ ~last'.raised
         /\ last'.passed <=> 0 \in S]_vars

\* C5: the message of the log call just made is in a sink only if its
\* severity reaches the logger's level and that sink's own threshold; and
\* with the level set to WARNING a call that passed the rank gate has
\* output exactly when it is a warning() or an error().
SeverityGate ==
  \A n \in LogNames :
    (last.op = "log" /\ last.name = n) =>
      LET lg == loggers[n] IN
      /\ \A i \in 1..Len(lg.handlers) :
           last.id \in Range(lg.handlers[i].out) =>
             /\ last.sev >= EffectiveLevel(lg)
             /\ last.sev >= lg.handlers[i].level
      /\ \A i \in 1..Len(root.handlers) :
           last.id \in Range(root.handlers[i].out) =>
             /\ last.sev >= EffectiveLevel(lg)
             /\ last.sev >= root.handlers[i].level
      /\ (levelSet[n] = "WARNING" /\ last.passed) =>
           ((Wrote(n, "file", last.id) \cup Wrote(n, "stream", last.id)
               \cup RootWrote(last.id) # {})
              <=> last.sev >= LevelNo("WARNING"))

\* C5 witness: with the level set to WARNING and a file sink attached, an
\* info() call passed the rank gate and left no output anywhere.
InfoSilentAtWarning ==
  /\ last.op = "log"
  /\ last.passed
  /\ last.sev = SevNo("info")
  /\ levelSet[last.name] = "WARNING"
  /\ OfKind(last.name, "file") # {}
  /\ Wrote(last.name, "file", last.id) \cup Wrote(last.name, "stream", last.id) = {}
  /\ RootWrote(last.id) = {}

\* C6: set_level and log_to_file with a level string outside INFO, DEBUG,
\* WARNING, ERROR raise, whatever the rank, and change nothing: not the
\* level, not the sinks, not the propagation flag, not the file system.
InvalidLevelRejected ==
  [][\A n \in LogNames, path \in Paths, level \in LevelArgs \ ValidLevels :
       (SetLevel(n, level) \/ LogToFile(n, path, level)) =>
         /\ last'.raised
         /\ UNCHANGED <<loggers, root, fs, levelSet, attached>>]_vars

\* C6 witness: log_to_file has raised on a process whose global rank is not
\* 0 (only the level check can have raised there).
InvalidLevelOnOtherRank ==
  /\ last.op = "log_to_file"
  /\ last.raised
  /\ FileSinkRank # 0

\* C7: log_to_file with a valid level does nothing on a global rank other
\* than 0, and on global rank 0 (or with GLOBAL not initialized) creates the
\* directory of the file, attaches the file sink at the requested threshold
\* and turns propagation off.
FileSinkOnRankZero ==
  [][\A n \in LogNames, path \in Paths, level \in LevelArgs \cap ValidLevels :
       LogToFile(n, path, level) =>
         /\ ~last'.raised
         /\ IF "GLOBAL" \in gpcInit /\ gpcRank["GLOBAL"] # 0
              THEN UNCHANGED <<loggers, root, fs, levelSet, attached>>
              ELSE /\ Dirname(path) # "" => Dirname(path) \in fs'
                   /\ path \in fs'
                   /\ ~loggers'[n].propagate
                   /\ \E i \in 1..Len(loggers'[n].handlers) :
                        /\ i > Len(loggers[n].handlers)
                        /\ loggers'[n].handlers[i].kind = "file"
                        /\ loggers'[n].handlers[i].path = path
                        /\ loggers'[n].handlers[i].level = LevelNo(level)]_vars

\* The same for the paths that name a directory.
FileSinkOnRankZeroInDirectory ==
  [][\A n \in LogNames, path \in Paths, level \in LevelArgs \cap ValidLevels :
       (LogToFile(n, path, level) /\ Dirname(path) # "") =>
         /\ ~last'.raised
         /\ IF "GLOBAL" \in gpcInit /\ gpcRank["GLOBAL"] # 0
              THEN UNCHANGED <<loggers, root, fs, levelSet, attached>>
              ELSE /\ Dirname(path) \in fs'
                   /\ path \in fs'
                   /\ ~loggers'[n].propagate
                   /\ \E i \in 1..Len(loggers'[n].handlers) :
                        /\ i > Len(loggers[n].handlers)
                        /\ loggers'[n].handlers[i].kind = "file"
                        /\ loggers'[n].handlers[i].path = path
                        /\ loggers'[n].handlers[i].level = LevelNo(level)]_vars

\* C8: a log call that passed the rank gate has flushed every handler of the
\* logger, no handler holds unflushed data, and every sink holds its
\* messages in the order of the calls.
EmitFlushesAll ==
  /\ \A n \in LogNames :
       /\ (last.op = "log" /\ last.name = n /\ last.passed) =>
            last.flushed = 1..Len(loggers[n].handlers)
       /\ \A i \in 1..Len(loggers[n].handlers) :
            /\ loggers[n].handlers[i].buf = <<>>
            /\ Increasing(loggers[n].handlers[i].out)
  /\ \A i \in 1..Len(root.handlers) :
       /\ root.handlers[i].buf = <<>>
       /\ Increasing(root.handlers[i].out)

\* C8 witness: the second of two emitting calls has returned, the logger has
\* a file and a stream handler, all flushed, and the file holds both
\* messages in call order.
TwoMessagesFlushedInOrder ==
  /\ last.op = "log"
  /\ last.passed
  /\ last.id = 2
  /\ last.flushed = 1..Len(loggers[last.name].handlers)
  /\ \E i \in OfKind(last.name, "file") : loggers[last.name].handlers[i].out = <<1, 2>>
  /\ OfKind(last.name, "stream") # {}

\* C9: after k successful log_to_file calls the logger holds k file sinks and
\* k stream sinks, the stream sinks at INFO; and a message of severity INFO
\* or higher that the logger emits is then printed by each of the k stream
\* sinks (twice after two calls), and not by the root's handler.
FileSinksAccumulate ==
  \A n \in LogNames :
    /\ Cardinality(OfKind(n, "file")) = attached[n]
    /\ Cardinality(OfKind(n, "stream")) = attached[n]
    /\ Len(loggers[n].handlers) = 2 * attached[n]
    /\ \A i \in OfKind(n, "stream") : loggers[n].handlers[i].level = StreamLevel
    /\ (/\ last.op = "log" /\ last.name = n /\ last.passed
        /\ attached[n] >= 1
        /\ last.sev >= StreamLevel
        /\ last.sev >= EffectiveLevel(loggers[n]))
         => /\ Cardinality(Wrote(n, "stream", last.id)) = attached[n]
            /\ RootWrote(last.id) = {}

\* C9 witness: after two successful log_to_file calls an emitted message is
\* on the console twice.
PrintedTwice ==
  /\ last.op = "log"
  /\ last.passed
  /\ attached[last.name] = 2
  /\ Cardinality(Wrote(last.name, "stream", last.id)) = 2

Returned(n) == {t \in Threads : pc[t].at = "returned" /\ pc[t].name = n}

\* C10 as claimed: whatever the interleaving of the threads, at most one
\* instance is created per name, the calls that returned for a name returned
\* the same instance, and no call failed with the duplicate-registration
\* error.
ConcurrentGetInstanceUnique ==
  /\ \A n \in Names :
       /\ Cardinality(CreatedFor(n)) <= 1
       /\ \A t, u \in Returned(n) : pc[t].ret = pc[u].ret
  /\ \A t \in Threads : pc[t].at # "raised"

\* C10 amended: a call that returns, returns an instance created for its
\* name, and a name gets at most one instance per thread; and as long as no
\* call passed the membership check of get_instance for a name while another
\* call was between that check and its insertion, the name has at most one
\* instance, its calls return that one (the registry's) and none of them
\* fails.
ConcurrentGetInstanceRace ==
  \A n \in Names :
    /\ Cardinality(CreatedFor(n)) <= NumThreads
    /\ \A t \in Returned(n) : [id |-> pc[t].ret, name |-> n] \in CreatedFor(n)
    /\ n \notin race =>
         /\ Cardinality(CreatedFor(n)) <= 1
         /\ \A t \in Returned(n) : pc[t].ret = instances[n]
         /\ \A t \in Threads : ~(pc[t].at = "raised" /\ pc[t].name = n)

\* C10 witness: two calls for the same unregistered name overlapped, both
\* returned, and they returned different instances.
RaceMadeTwoInstances ==
  \E n \in Names :
    /\ n \in race
    /\ \E t, u \in Returned(n) : pc[t].ret # pc[u].ret
====
